---- MODULE Spec2Model ----
(***************************************************************************)
(* Anchor target assignment of tf-eager-fasterrcnn:                        *)
(*   detection/core/anchor/anchor_target.py  (AnchorTarget)                *)
(*   detection/core/bbox/transforms.py       (bbox2delta, delta2bbox)      *)
(*                                                                         *)
(* Numbers.  Box coordinates are integers.  The float32 values the code    *)
(* computes from them are modelled exactly: a value is a record            *)
(*     [k, a, b, r]                                                        *)
(* where k = "fin" stands for the real number  a * ln(r) + b  with a, b, r *)
(* rationals (pairs <<n, d>>, d > 0, in lowest terms; a = 0 forces r = 1), *)
(* k = "pinf", "ninf", "nan" are the IEEE infinities and NaN, and          *)
(* k = "irr" is a finite real outside that form, whose value is not        *)
(* tracked.  Rounding error of float32 is not modelled.                    *)
(* Indices are 1-based (the code's index i is i + 1 here).                 *)
(***************************************************************************)
EXTENDS Integers, Sequences, FiniteSets, TLC

\* ------------------------------------------------------------ rationals
Abs(n) == IF n < 0 THEN -n ELSE n

RECURSIVE Gcd(_, _)
Gcd(m, n) == IF n = 0 THEN m ELSE Gcd(n, m % n)

QNorm(n, d) ==
    LET s == IF d < 0 THEN -1 ELSE 1
        g == Gcd(Abs(n), Abs(d))
    IN  <<(s * n) \div g, (s * d) \div g>>

Q0 == <<0, 1>>
Q1 == <<1, 1>>
QInt(n) == <<n, 1>>
QNeg(p) == <<-p[1], p[2]>>
QAdd(p, q) == QNorm(p[1] * q[2] + q[1] * p[2], p[2] * q[2])
QMul(p, q) == QNorm(p[1] * q[1], p[2] * q[2])
QDiv(p, q) == QNorm(p[1] * q[2], p[2] * q[1])
QLt(p, q) == p[1] * q[2] < q[1] * p[2]
QLe(p, q) == p[1] * q[2] <= q[1] * p[2]
QSign(p) == IF p[1] > 0 THEN 1 ELSE IF p[1] < 0 THEN -1 ELSE 0

\* ------------------------------------------------- float values (exact)
MkFin(a, b, r) == [k |-> "fin", a |-> a, b |-> b, r |-> IF a = Q0 THEN Q1 ELSE r]
Fin(q) == MkFin(Q0, q, Q1)
NInt(n) == Fin(QInt(n))
NaN == [k |-> "nan", a |-> Q0, b |-> Q0, r |-> Q1]
PInf == [k |-> "pinf", a |-> Q0, b |-> Q0, r |-> Q1]
NInf == [k |-> "ninf", a |-> Q0, b |-> Q0, r |-> Q1]
Irr == [k |-> "irr", a |-> Q0, b |-> Q0, r |-> Q1]
Half == Fin(<<1, 2>>)

IsInf(x) == x.k \in {"pinf", "ninf"}
IsFinite(x) == x.k \in {"fin", "irr"}
IsPlain(x) == x.k = "fin" /\ x.a = Q0
IsZero(x) == IsPlain(x) /\ x.b = Q0
\* sign of an infinity or of a rational
NSign(x) == IF x.k = "pinf" THEN 1 ELSE IF x.k = "ninf" THEN -1 ELSE QSign(x.b)
InfOf(s) == IF s > 0 THEN PInf ELSE NInf

NNeg(x) ==
    IF x.k = "fin" THEN MkFin(QNeg(x.a), QNeg(x.b), x.r)
    ELSE IF x.k = "pinf" THEN NInf
    ELSE IF x.k = "ninf" THEN PInf
    ELSE x

NAdd(x, y) ==
    IF x.k = "nan" \/ y.k = "nan" THEN NaN
    ELSE IF IsInf(x) /\ IsInf(y) THEN (IF x.k = y.k THEN x ELSE NaN)
    ELSE IF IsInf(x) THEN x
    ELSE IF IsInf(y) THEN y
    ELSE IF x.k = "irr" \/ y.k = "irr" THEN Irr
    ELSE IF x.a = Q0 THEN MkFin(y.a, QAdd(x.b, y.b), y.r)
    ELSE IF y.a = Q0 THEN MkFin(x.a, QAdd(x.b, y.b), x.r)
    ELSE IF x.r = y.r THEN MkFin(QAdd(x.a, y.a), QAdd(x.b, y.b), x.r)
    ELSE Irr

NSub(x, y) == NAdd(x, NNeg(y))

NMul(x, y) ==
    IF x.k = "nan" \/ y.k = "nan" THEN NaN
    ELSE IF IsInf(x) \/ IsInf(y) THEN
        (IF IsZero(x) \/ IsZero(y) THEN NaN
         ELSE IF (IsInf(x) \/ IsPlain(x)) /\ (IsInf(y) \/ IsPlain(y))
              THEN InfOf(NSign(x) * NSign(y))
         ELSE Irr)
    ELSE IF x.k = "irr" \/ y.k = "irr" THEN Irr
    ELSE IF x.a = Q0 THEN MkFin(QMul(x.b, y.a), QMul(x.b, y.b), y.r)
    ELSE IF y.a = Q0 THEN MkFin(QMul(y.b, x.a), QMul(y.b, x.b), x.r)
    ELSE Irr

NDiv(x, y) ==
    IF x.k = "nan" \/ y.k = "nan" THEN NaN
    ELSE IF IsInf(y) THEN (IF IsInf(x) THEN NaN ELSE NInt(0))
    ELSE IF IsZero(y) THEN
        (IF IsZero(x) THEN NaN
         ELSE IF IsInf(x) \/ IsPlain(x) THEN InfOf(NSign(x))
         ELSE Irr)
    ELSE IF IsInf(x) THEN (IF IsPlain(y) THEN InfOf(NSign(x) * NSign(y)) ELSE Irr)
    ELSE IF x.k = "irr" \/ y.k = "irr" THEN Irr
    ELSE IF y.a = Q0 THEN MkFin(QDiv(x.a, y.b), QDiv(x.b, y.b), x.r)
    ELSE Irr

\* tf.log: ln(q) of a rational q > 0 is kept symbolically (ln 1 = 0)
NLog(x) ==
    IF x.k = "nan" \/ x.k = "ninf" THEN NaN
    ELSE IF x.k = "pinf" THEN PInf
    ELSE IF ~IsPlain(x) THEN Irr
    ELSE IF QSign(x.b) < 0 THEN NaN
    ELSE IF QSign(x.b) = 0 THEN NInf
    ELSE IF x.b = Q1 THEN NInt(0)
    ELSE MkFin(Q1, Q0, x.b)

\* tf.exp: exp(ln r) = r and exp(0) = 1; other exponentials are not tracked
NExp(x) ==
    IF x.k = "nan" THEN NaN
    ELSE IF x.k = "pinf" THEN PInf
    ELSE IF x.k = "ninf" THEN NInt(0)
    ELSE IF x.k = "irr" THEN Irr
    ELSE IF x.a = Q0 /\ x.b = Q0 THEN NInt(1)
    ELSE IF x.a = Q1 /\ x.b = Q0 THEN Fin(x.r)
    ELSE Irr

\* ------------------------------------------------------------ transforms
\* tf.cast(box, tf.float32) of a box <<y1, x1, y2, x2>>
CastBox(box) == [c \in 1..4 |-> NInt(box[c])]

\* transforms.py, bbox2delta, for one (box, gt_box) row
bbox2delta(box, gt_box, means, stds) ==
    LET b == CastBox(box)
        g == CastBox(gt_box)
        height == NSub(b[3], b[1])
        width == NSub(b[4], b[2])
        center_y == NAdd(b[1], NMul(Half, height))
        center_x == NAdd(b[2], NMul(Half, width))
        gt_height == NSub(g[3], g[1])
        gt_width == NSub(g[4], g[2])
        gt_center_y == NAdd(g[1], NMul(Half, gt_height))
        gt_center_x == NAdd(g[2], NMul(Half, gt_width))
        dy == NDiv(NSub(gt_center_y, center_y), height)
        dx == NDiv(NSub(gt_center_x, center_x), width)
        dh == NLog(NDiv(gt_height, height))
        dw == NLog(NDiv(gt_width, width))
        delta == <<dy, dx, dh, dw>>
    IN  [c \in 1..4 |-> NDiv(NSub(delta[c], means[c]), stds[c])]

\* faulty variant of delta2bbox: y2 = center_y + height
delta2bboxHalfHeight(box, delta0, means, stds) ==
    LET b == CastBox(box)
        delta == [c \in 1..4 |-> NAdd(NMul(delta0[c], stds[c]), means[c])]
        height0 == NSub(b[3], b[1])
        width0 == NSub(b[4], b[2])
        center_y0 == NAdd(b[1], NMul(Half, height0))
        center_x0 == NAdd(b[2], NMul(Half, width0))
        center_y == NAdd(center_y0, NMul(delta[1], height0))
        center_x == NAdd(center_x0, NMul(delta[2], width0))
        height == NMul(height0, NExp(delta[3]))
        width == NMul(width0, NExp(delta[4]))
        y1 == NSub(center_y, NMul(Half, height))
        x1 == NSub(center_x, NMul(Half, width))
        y2 == NAdd(center_y, height)
        x2 == NAdd(x1, width)
    IN  <<y1, x1, y2, x2>>

\* transforms.py, delta2bbox, for one (box, delta) row
delta2bbox(box, delta0, means, stds) ==
    LET b == CastBox(box)
        delta == [c \in 1..4 |-> NAdd(NMul(delta0[c], stds[c]), means[c])]
        height0 == NSub(b[3], b[1])
        width0 == NSub(b[4], b[2])
        center_y0 == NAdd(b[1], NMul(Half, height0))
        center_x0 == NAdd(b[2], NMul(Half, width0))
        center_y == NAdd(center_y0, NMul(delta[1], height0))
        center_x == NAdd(center_x0, NMul(delta[2], width0))
        height == NMul(height0, NExp(delta[3]))
        width == NMul(width0, NExp(delta[4]))
        y1 == NSub(center_y, NMul(Half, height))
        x1 == NSub(center_x, NMul(Half, width))
        y2 == NAdd(y1, height)
        x2 == NAdd(x1, width)
    IN  <<y1, x1, y2, x2>>

\* ------------------------------------------------- geometry and trimming
Min(m, n) == IF m < n THEN m ELSE n
Max(m, n) == IF m > n THEN m ELSE n

\* detection.utils.misc.trim_zeros: drop the all-zero rows, keep the order
trim_zeros(boxes) == SelectSeq(boxes, LAMBDA b : b # <<0, 0, 0, 0>>)

\* IoU of two boxes as a rational, 0 when the union is empty
IoU(p, q) ==
    LET ih == Max(0, Min(p[3], q[3]) - Max(p[1], q[1]))
        iw == Max(0, Min(p[4], q[4]) - Max(p[2], q[2]))
        inter == ih * iw
        union == (p[3] - p[1]) * (p[4] - p[2]) + (q[3] - q[1]) * (q[4] - q[2]) - inter
    IN  IF union = 0 THEN Q0 ELSE QNorm(inter, union)

\* geometry.compute_overlaps: [num_anchors, num_gt_boxes]
compute_overlaps(boxes1, boxes2) ==
    [i \in 1..Len(boxes1) |-> [j \in 1..Len(boxes2) |-> IoU(boxes1[i], boxes2[j])]]

\* faulty variant of ArgMax: tf.argmin in its place
ArgMin(v, n) ==
    CHOOSE i \in 1..n :
        /\ \A k \in 1..n : QLe(v[i], v[k])
        /\ \A k \in 1..(i - 1) : QLt(v[i], v[k])

\* tf.argmax over a non-empty vector of rationals: the first index of the
\* maximum (what the CPU kernel returns on ties)
ArgMax(v, n) ==
    CHOOSE i \in 1..n :
        /\ \A k \in 1..n : QLe(v[k], v[i])
        /\ \A k \in 1..(i - 1) : QLt(v[k], v[i])

\* ---------------------------------------------------------- AnchorTarget
\* anchor_target.py, __init__
pos_iou_thr == <<7, 10>>
neg_iou_thr == <<3, 10>>
num_rpn_deltas == 256

ZeroRow == [c \in 1..4 |-> NInt(0)]

Count(labels, v) == Cardinality({i \in DOMAIN labels : labels[i] = v})

\* tf.where(tf.equal(target_matchs, v)): the indices, ascending
RECURSIVE IdsIn(_, _, _, _)
IdsIn(labels, v, lo, hi) ==
    IF lo > hi THEN <<>>
    ELSE IF lo = hi THEN (IF labels[lo] = v THEN <<lo>> ELSE <<>>)
    ELSE LET mid == (lo + hi) \div 2
         IN  IdsIn(labels, v, lo, mid) \o IdsIn(labels, v, mid + 1, hi)
Ids(labels, v) == IdsIn(labels, v, 1, Len(labels))

\* tf.random_shuffle(ids)[:extra]: every set of `extra` of the ids
RECURSIVE Pick(_, _)
Pick(S, k) ==
    IF k = 0 THEN {{}}
    ELSE UNION {{T \cup {i} : T \in Pick({j \in S : j > i}, k - 1)} : i \in S}

VARIABLES
    target_means, target_stds,          \* self.target_means, self.target_stds
    anchors, valid_flags, gt_boxes_arg, \* arguments of _build_single_target
    gt_boxes,                           \* gt_boxes after trim_zeros (line 80)
    overlaps, anchor_iou_argmax, anchor_iou_max, gt_iou_argmax,
    target_matchs, target_deltas,
    pc,                                 \* position in _build_single_target
    box, gt_box, delta, result, tpc     \* bbox2delta / delta2bbox round trip

cfg == <<target_means, target_stds>>
args == <<anchors, valid_flags, gt_boxes_arg>>
tvars == <<box, gt_box, delta, result, tpc>>
bvars == <<gt_boxes, overlaps, anchor_iou_argmax, anchor_iou_max, gt_iou_argmax,
           target_matchs, target_deltas, pc>>
vars == <<cfg, args, bvars, tvars>>

N == Len(anchors)
M == Len(gt_boxes)

\* ------------------------------------------------------------- the inputs
MaxAnchors == 2
MaxGt == 2

\* refinement mean and standard deviation (the example of the docstring)
ZeroMeans == [c \in 1..4 |-> NInt(0)]
RpnStds == <<Fin(<<1, 10>>), Fin(<<1, 10>>), Fin(<<1, 5>>), Fin(<<1, 5>>)>>

\* Small images: a few anchors around the ground truth boxes.  Against the
\* box <<0,0,10,10>> the anchors have IoU 1, 9/11 and 1/4, against the box
\* <<0,2,10,12>> 2/3, 9/11 and 3/7, against the flat box 0.
AnchorBoxes == {<<0, 0, 10, 10>>, <<0, 1, 10, 11>>, <<0, 6, 10, 16>>}
\* rows of the padded ground truth array: padding, two boxes, and a box of
\* zero height that is not padding
GtRows == {<<0, 0, 0, 0>>, <<0, 0, 10, 10>>, <<0, 2, 10, 12>>, <<5, 0, 5, 10>>}

SmallInputs ==
    {[anchors |-> a, valid_flags |-> f, gt_boxes |-> g] :
        a \in UNION {[1..n -> AnchorBoxes] : n \in 1..MaxAnchors},
        f \in UNION {[1..n -> {0, 1}] : n \in 1..MaxAnchors},
        g \in [1..MaxGt -> GtRows]}

\* Large images: `near` anchors of IoU >= 0.7 with the one ground truth box
\* (the last of them coincides with it), then `far` anchors that miss it;
\* every `inv`-th anchor lies outside the image (inv = 0: none).
WideGt == <<0, 0, 10, 1000>>
LargeImage(near, far, inv) ==
    [anchors |-> [i \in 1..(near + far) |->
                    IF i <= near THEN <<0, near - i, 10, 1000 + near - i>>
                    ELSE <<0, 5000 + i, 10, 6000 + i>>],
     valid_flags |-> [i \in 1..(near + far) |->
                    IF inv > 0 /\ i % inv = 0 THEN 0 ELSE 1],
     gt_boxes |-> [j \in 1..MaxGt |-> IF j = 1 THEN WideGt ELSE <<0, 0, 0, 0>>]]

LargeInputs ==
    {LargeImage(num_rpn_deltas \div 2, 0, 0),
     LargeImage(num_rpn_deltas \div 2 + 1, 0, 0),
     LargeImage(num_rpn_deltas \div 2 + 1, 0, 50),
     LargeImage(1, num_rpn_deltas, 0),
     LargeImage(3, 2 * num_rpn_deltas - 4, 2)}

Inputs == {in \in SmallInputs : Len(in.anchors) = Len(in.valid_flags)} \cup LargeInputs

\* boxes and configurations of the round trip
TBoxes == {<<0, 0, 10, 10>>, <<2, 3, 8, 5>>, <<-4, 1, 3, 2>>, <<1, 1, 1, 6>>, <<0, 0, 0, 0>>}
TMeans == {ZeroMeans, <<Fin(<<1, 2>>), Fin(<<-1, 4>>), NInt(1), NInt(-2)>>}
TStds == {RpnStds, [c \in 1..4 |-> NInt(1)],
          <<NInt(2), Fin(<<1, 3>>), NInt(-1), Fin(<<3, 7>>)>>,
          <<Fin(<<1, 10>>), Fin(<<1, 10>>), NInt(0), Fin(<<1, 5>>)>>}

Idle == <<>>

\* ------------------------------------------------ _build_single_target
InitBuild ==
    /\ target_means = ZeroMeans
    /\ target_stds = RpnStds
    /\ \E in \in Inputs :
        /\ anchors = in.anchors
        /\ valid_flags = in.valid_flags
        /\ gt_boxes_arg = in.gt_boxes
    /\ gt_boxes = Idle
    /\ overlaps = Idle
    /\ anchor_iou_argmax = Idle
    /\ anchor_iou_max = Idle
    /\ gt_iou_argmax = Idle
    /\ target_matchs = Idle
    /\ target_deltas = Idle
    /\ pc = "trim"
    /\ box = Idle /\ gt_box = Idle /\ delta = Idle /\ result = Idle /\ tpc = "off"

\* lines 80-85: trim the padding, all labels 0, the overlap matrix
ComputeOverlaps ==
    /\ pc = "trim"
    /\ gt_boxes' = trim_zeros(gt_boxes_arg)
    /\ target_matchs' = [i \in 1..N |-> 0]
    /\ overlaps' = compute_overlaps(anchors, gt_boxes')
    /\ pc' = "match"
    /\ UNCHANGED <<cfg, args, tvars, anchor_iou_argmax, anchor_iou_max,
                   gt_iou_argmax, target_deltas>>

\* lines 100-101: tf.argmax rejects an empty reduction axis
\* (InvalidArgumentError: Reduction axis 1 is empty in shape [N,0])
AnchorArgmax ==
    /\ pc = "match"
    /\ IF M = 0
       THEN /\ pc' = "raised"
            /\ UNCHANGED <<anchor_iou_argmax, anchor_iou_max>>
       ELSE /\ anchor_iou_argmax' = [i \in 1..N |-> ArgMax(overlaps[i], M)]
            /\ anchor_iou_max' = [i \in 1..N |-> overlaps[i][anchor_iou_argmax'[i]]]
            /\ pc' = "neg"
    /\ UNCHANGED <<cfg, args, tvars, gt_boxes, overlaps, gt_iou_argmax,
                   target_matchs, target_deltas>>

\* lines 103-104: negative where the best IoU is below neg_iou_thr
NegativePass(labels) ==
    [i \in 1..N |-> IF QLt(anchor_iou_max[i], neg_iou_thr) THEN -1 ELSE labels[i]]

SetNegative ==
    /\ pc = "neg"
    /\ target_matchs' = NegativePass(target_matchs)
    /\ pc' = "filter"
    /\ UNCHANGED <<cfg, args, tvars, gt_boxes, overlaps, anchor_iou_argmax,
                   anchor_iou_max, gt_iou_argmax, target_deltas>>

\* faulty variant of InvalidPass: the filter is left out
InvalidPassOmitted(labels) == labels

\* lines 107-108: filter invalid anchors
InvalidPass(labels) ==
    [i \in 1..N |-> IF valid_flags[i] = 1 THEN labels[i] ELSE 0]

FilterInvalid ==
    /\ pc = "filter"
    /\ target_matchs' = InvalidPass(target_matchs)
    /\ pc' = "pos"
    /\ UNCHANGED <<cfg, args, tvars, gt_boxes, overlaps, anchor_iou_argmax,
                   anchor_iou_max, gt_iou_argmax, target_deltas>>

\* faulty variant of PositivePass: only valid anchors become positive
PositivePassValidOnly(labels) ==
    [i \in 1..N |->
        IF QLe(pos_iou_thr, anchor_iou_max[i]) /\ valid_flags[i] = 1
        THEN 1 ELSE labels[i]]

\* lines 111-112: positive where the best IoU reaches pos_iou_thr
PositivePass(labels) ==
    [i \in 1..N |-> IF QLe(pos_iou_thr, anchor_iou_max[i]) THEN 1 ELSE labels[i]]

SetPositive ==
    /\ pc = "pos"
    /\ target_matchs' = PositivePass(target_matchs)
    /\ pc' = "cover"
    /\ UNCHANGED <<cfg, args, tvars, gt_boxes, overlaps, anchor_iou_argmax,
                   anchor_iou_max, gt_iou_argmax, target_deltas>>

\* faulty variant of CoveragePass: no forced positive below neg_iou_thr
CoveragePassAboveNeg(labels, best) ==
    [i \in 1..N |->
        IF (\E j \in 1..M : best[j] = i) /\ ~QLt(anchor_iou_max[i], neg_iou_thr)
        THEN 1 ELSE labels[i]]

\* line 116: tf.scatter_update(target_matchs, gt_iou_argmax, 1)
CoveragePass(labels, best) ==
    [i \in 1..N |-> IF \E j \in 1..M : best[j] = i THEN 1 ELSE labels[i]]

\* lines 115-116
SetCoverage ==
    /\ pc = "cover"
    /\ gt_iou_argmax' = [j \in 1..M |-> ArgMax([i \in 1..N |-> overlaps[i][j]], N)]
    /\ target_matchs' = CoveragePass(target_matchs, gt_iou_argmax')
    /\ pc' = "subpos"
    /\ UNCHANGED <<cfg, args, tvars, gt_boxes, overlaps, anchor_iou_argmax,
                   anchor_iou_max, target_deltas>>

\* ids[:extra] of a shuffled ids, extra > 0: any min(extra, len) of the ids
Shuffled(ids, extra) == Pick({ids[k] : k \in 1..Len(ids)}, Min(extra, Len(ids)))

\* tf.scatter_update(target_matchs, ids, 0)
Reset(labels, drop) == [i \in 1..N |-> IF i \in drop THEN 0 ELSE labels[i]]

\* faulty variant of PosExtra: one positive too many is reset
PosExtraOffByOne(n) == n - (num_rpn_deltas \div 2) + 1

\* line 123
PosExtra(n) == n - (num_rpn_deltas \div 2)

\* lines 121-127
SubsamplePositive ==
    /\ pc = "subpos"
    /\ \E ids \in {Ids(target_matchs, 1)} :
        LET extra == PosExtra(Len(ids))
        IN  IF extra > 0
            THEN \E drop \in Shuffled(ids, extra) :
                    target_matchs' = Reset(target_matchs, drop)
            ELSE UNCHANGED target_matchs
    /\ pc' = "subneg"
    /\ UNCHANGED <<cfg, args, tvars, gt_boxes, overlaps, anchor_iou_argmax,
                   anchor_iou_max, gt_iou_argmax, target_deltas>>

\* faulty variant of NegExtra: the positives are not counted
NegExtraAlone(n, npos) == n - num_rpn_deltas

\* lines 131-132
NegExtra(n, npos) == n - (num_rpn_deltas - npos)

\* lines 129-136
SubsampleNegative ==
    /\ pc = "subneg"
    /\ \E ids \in {Ids(target_matchs, -1)} :
        LET extra == NegExtra(Len(ids), Count(target_matchs, 1))
        IN  IF extra > 0
            THEN \E drop \in Shuffled(ids, extra) :
                    target_matchs' = Reset(target_matchs, drop)
            ELSE UNCHANGED target_matchs
    /\ pc' = "deltas"
    /\ UNCHANGED <<cfg, args, tvars, gt_boxes, overlaps, anchor_iou_argmax,
                   anchor_iou_max, gt_iou_argmax, target_deltas>>

\* faulty variant of Padding: pads to num_rpn_deltas // 2 rows
PaddingToHalf(n) == Max(num_rpn_deltas \div 2 - n, 0)

\* line 150
Padding(n) == Max(num_rpn_deltas - n, 0)

\* lines 141-153
ComputeDeltas ==
    /\ pc = "deltas"
    /\ \E ids \in {Ids(target_matchs, 1)} :
        LET a == [k \in 1..Len(ids) |-> anchors[ids[k]]]
            anchor_idx == [k \in 1..Len(ids) |-> anchor_iou_argmax[ids[k]]]
            gt == [k \in 1..Len(ids) |-> gt_boxes[anchor_idx[k]]]
            deltas == [k \in 1..Len(ids) |->
                         bbox2delta(a[k], gt[k], target_means, target_stds)]
            padding == Padding(Len(ids))
        IN  target_deltas' = [k \in 1..(Len(ids) + padding) |->
                                 IF k <= Len(ids) THEN deltas[k] ELSE ZeroRow]
    /\ pc' = "done"
    /\ UNCHANGED <<cfg, args, tvars, gt_boxes, overlaps, anchor_iou_argmax,
                   anchor_iou_max, gt_iou_argmax, target_matchs>>

Next ==
    \/ ComputeOverlaps
    \/ AnchorArgmax
    \/ SetNegative
    \/ FilterInvalid
    \/ SetPositive
    \/ SetCoverage
    \/ SubsamplePositive
    \/ SubsampleNegative
    \/ ComputeDeltas

Spec == InitBuild /\ [][Next]_vars

\* ------------------------------------- bbox2delta, then delta2bbox
InitTransform ==
    /\ target_means \in TMeans
    /\ target_stds \in TStds
    /\ box \in TBoxes
    /\ gt_box \in TBoxes
    /\ delta = Idle /\ result = Idle
    /\ tpc = "encode"
    /\ anchors = Idle /\ valid_flags = Idle /\ gt_boxes_arg = Idle
    /\ gt_boxes = Idle /\ overlaps = Idle /\ anchor_iou_argmax = Idle
    /\ anchor_iou_max = Idle /\ gt_iou_argmax = Idle
    /\ target_matchs = Idle /\ target_deltas = Idle
    /\ pc = "off"

Encode ==
    /\ tpc = "encode"
    /\ delta' = bbox2delta(box, gt_box, target_means, target_stds)
    /\ tpc' = "decode"
    /\ UNCHANGED <<cfg, args, bvars, box, gt_box, result>>

Decode ==
    /\ tpc = "decode"
    /\ result' = delta2bbox(box, delta, target_means, target_stds)
    /\ tpc' = "done"
    /\ UNCHANGED <<cfg, args, bvars, box, gt_box, delta>>

TNext == Encode \/ Decode

TransformSpec == InitTransform /\ [][TNext]_vars

\* ===================================================================
\* Properties
\* ===================================================================
Zero4 == <<0, 0, 0, 0>>
AllPadding == \A j \in 1..Len(gt_boxes_arg) : gt_boxes_arg[j] = Zero4
Labelled == pc \in {"neg", "filter", "pos", "cover", "subpos", "subneg", "deltas", "done"}
Covered == pc \in {"subpos", "subneg", "deltas", "done"}

\* i is argmax_i overlaps[i, j]: the first anchor of maximal IoU with box j
IsBestAnchor(i, j) ==
    /\ \A k \in 1..N : QLe(overlaps[k][j], overlaps[i][j])
    /\ \A k \in 1..(i - 1) : QLt(overlaps[k][j], overlaps[i][j])
IsForced(i) == \E j \in 1..M : IsBestAnchor(i, j)

\* max_j overlaps[i, j]
RowMax(i) ==
    CHOOSE q \in {overlaps[i][j] : j \in 1..M} : \A j \in 1..M : QLe(overlaps[i][j], q)

\* the delta row of a positive anchor: 1 + the positives before it
Rank(i) == Cardinality({k \in 1..i : target_matchs[k] = 1})

\* the anchors that are positive before subsampling
PrePositives ==
    {i \in 1..N : QLe(pos_iou_thr, anchor_iou_max[i])
                    \/ \E j \in 1..M : gt_iou_argmax[j] = i}

\* C1: right after the coverage step (before subsampling) the best anchor of
\* every ground truth box is labelled 1, whatever its IoU and its valid flag.
C1_CoverageAfterStep8 ==
    pc = "subpos" =>
        \A j \in 1..M : \A i \in 1..N : IsBestAnchor(i, j) => target_matchs[i] = 1

C1_Witness ==
    /\ pc = "subpos"
    /\ \E j \in 1..M : \E i \in 1..N :
        /\ IsBestAnchor(i, j)
        /\ QLt(overlaps[i][j], neg_iou_thr)
        /\ QLt(RowMax(i), neg_iou_thr)
        /\ valid_flags[i] = 0
        /\ target_matchs[i] = 1

\* C2 as stated: an invalid anchor is never returned as -1, and is returned
\* as 1 only if it is the best anchor of some ground truth box.
C2_InvalidOnlyForced ==
    pc = "done" =>
        \A i \in 1..N : valid_flags[i] = 0 =>
            /\ target_matchs[i] # -1
            /\ target_matchs[i] = 1 => IsForced(i)

\* C2 amended: an invalid anchor is never returned as -1, and is returned as
\* 1 only if its best IoU reaches pos_iou_thr or it is the best anchor of
\* some ground truth box.
C2_InvalidNeverNegative ==
    pc = "done" =>
        \A i \in 1..N : valid_flags[i] = 0 =>
            /\ target_matchs[i] # -1
            /\ target_matchs[i] = 1 => (QLe(pos_iou_thr, RowMax(i)) \/ IsForced(i))

C2_Witness ==
    /\ pc = "done"
    /\ \E i \in 1..N :
        /\ valid_flags[i] = 0
        /\ target_matchs[i] = 1
        /\ QLe(pos_iou_thr, RowMax(i))
        /\ ~IsForced(i)
    /\ \E i \in 1..N :
        /\ valid_flags[i] = 0
        /\ QLt(RowMax(i), neg_iou_thr)
        /\ target_matchs[i] = 0

\* the counts of C3 in the labels after subsampling
C3_Counts ==
    pc \in {"deltas", "done"} =>
        /\ 2 * Count(target_matchs, 1) <= num_rpn_deltas
        /\ Count(target_matchs, 1) + Count(target_matchs, -1) <= num_rpn_deltas
\* the two subsampling steps of C3
C3_Steps ==
    /\ (pc = "subpos" /\ 2 * Count(target_matchs, 1) > num_rpn_deltas)
            => 2 * Count(target_matchs', 1) = num_rpn_deltas
    /\ (pc = "subneg"
            /\ Count(target_matchs, -1) > num_rpn_deltas - Count(target_matchs, 1))
            => Count(target_matchs', -1) = num_rpn_deltas - Count(target_matchs', 1)
\* C3: in the returned labels at most num_rpn_deltas * pos_fraction (128) are
\* 1 and at most num_rpn_deltas are non-zero; positive subsampling of more
\* than 128 positives leaves exactly 128, negative subsampling of more than
\* num_rpn_deltas - count(1) negatives leaves exactly that many.
C3_SubsampleBounds == [](C3_Counts) /\ [][C3_Steps]_vars

C3_Witness ==
    /\ pc = "done"
    /\ 2 * Cardinality(PrePositives) > num_rpn_deltas
    /\ 2 * Count(target_matchs, 1) = num_rpn_deltas

\* C4: the returned delta target has exactly num_rpn_deltas rows: the row of
\* the k-th positive anchor (ascending index) is bbox2delta of that anchor
\* and the ground truth box anchor_iou_argmax gives it, the rows after the
\* positives are zero.
C4_DeltaRows ==
    pc = "done" =>
        /\ Len(target_deltas) = num_rpn_deltas
        /\ \A i \in 1..N : target_matchs[i] = 1 =>
            target_deltas[Rank(i)] =
                bbox2delta(anchors[i], gt_boxes[anchor_iou_argmax[i]],
                           target_means, target_stds)
        /\ \A k \in (Count(target_matchs, 1) + 1)..num_rpn_deltas :
            target_deltas[k] = ZeroRow

C4_Witness ==
    /\ pc = "done"
    /\ \E i \in 1..N : \E k \in (i + 1)..N :
        /\ target_matchs[i] # 1
        /\ target_matchs[k] = 1
        /\ target_deltas[Rank(k)] # ZeroRow
        /\ target_deltas[Rank(k)] =
                bbox2delta(anchors[k], gt_boxes[anchor_iou_argmax[k]],
                           target_means, target_stds)
    /\ target_deltas[num_rpn_deltas] = ZeroRow

\* C5: with nothing but padding in the ground truth the call does not raise,
\* labels no anchor 1, returns every anchor as -1 and only zero delta rows.
C5_EmptyGroundTruthHandled ==
    AllPadding =>
        /\ pc # "raised"
        /\ Labelled => \A i \in 1..N : target_matchs[i] # 1
        /\ pc = "done" =>
            /\ \A i \in 1..N : target_matchs[i] = -1
            /\ \A k \in 1..Len(target_deltas) : target_deltas[k] = ZeroRow

NonDegenerate(b) == b[3] > b[1] /\ b[4] > b[2]
Tolerance == <<1, 10000>>
Within(u, v) ==
    LET d == NSub(u, v)
    IN  IsPlain(d) /\ QLe(d.b, Tolerance) /\ QLe(QNeg(d.b), Tolerance)

C7_DegenerateRejected ==
    pc = "done" =>
        \A k \in 1..Len(target_deltas) : \A c \in 1..4 : IsFinite(target_deltas[k][c])

\* C8: before subsampling the label of anchor i is 1 if its best IoU reaches
\* pos_iou_thr or it is the best anchor of a ground truth box; else 0 if it
\* is not valid; else -1 if its best IoU is below neg_iou_thr; else 0.
C8_LabelsBeforeSubsampling ==
    pc = "subpos" =>
        \A i \in 1..N :
            target_matchs[i] =
                IF QLe(pos_iou_thr, RowMax(i)) \/ IsForced(i) THEN 1
                ELSE IF valid_flags[i] # 1 THEN 0
                ELSE IF QLt(RowMax(i), neg_iou_thr) THEN -1
                ELSE 0

C8_Witness ==
    /\ pc = "subpos"
    /\ \E i \in 1..N :
        /\ valid_flags[i] = 0 /\ QLe(pos_iou_thr, RowMax(i)) /\ ~IsForced(i)
        /\ target_matchs[i] = 1
    /\ \E i \in 1..N :
        /\ valid_flags[i] = 1 /\ QLt(RowMax(i), neg_iou_thr) /\ ~IsForced(i)
        /\ target_matchs[i] = -1

\* C9 as stated: the anchor forced positive for ground truth box j has j as
\* its matched box, anchor_iou_argmax[a] = j.
C9_ForcedAnchorMatchesItsBox ==
    Covered => \A j \in 1..M : anchor_iou_argmax[gt_iou_argmax[j]] = j

\* a has no ground truth box of IoU as large as that with j
StrictlyBestBox(a, j) == \A m \in 1..M : m # j => QLt(overlaps[a][m], overlaps[a][j])

\* C9 amended: the anchor a forced positive for box j is matched to the box
\* anchor_iou_argmax[a], whose IoU with a is at least that of j and which is
\* j when j alone has the largest IoU with a; when a is returned positive its
\* delta row encodes the transform from a to the box anchor_iou_argmax[a].
C9_ForcedAnchorMatchesBestBox ==
    Covered =>
        \A j \in 1..M :
            LET a == gt_iou_argmax[j]
                m == anchor_iou_argmax[a]
            IN  /\ IsBestAnchor(a, j)
                /\ QLe(overlaps[a][j], overlaps[a][m])
                /\ StrictlyBestBox(a, j) => m = j
                /\ (pc = "done" /\ target_matchs[a] = 1) =>
                        target_deltas[Rank(a)] =
                            bbox2delta(anchors[a], gt_boxes[m], target_means, target_stds)

C9_Witness ==
    /\ pc = "done"
    /\ \E j \in 1..M :
        LET a == gt_iou_argmax[j]
            m == anchor_iou_argmax[a]
        IN  /\ m # j
            /\ QLt(overlaps[a][j], overlaps[a][m])
            /\ target_matchs[a] = 1
            /\ target_deltas[Rank(a)] =
                    bbox2delta(anchors[a], gt_boxes[m], target_means, target_stds)
            /\ target_deltas[Rank(a)] #
                    bbox2delta(anchors[a], gt_boxes[j], target_means, target_stds)

\* C10 as stated: in the returned labels the forced anchor of every ground
\* truth box is still 1, whatever the shuffles chose.
C10_CoverageSurvives ==
    pc = "done" => \A j \in 1..M : target_matchs[gt_iou_argmax[j]] = 1

\* C10 amended: the forced anchor of every ground truth box is still 1 in the
\* returned labels when at most num_rpn_deltas // 2 anchors are positive
\* before subsampling (negative subsampling never resets it).
C10_CoverageSurvivesWithoutExcess ==
    (pc \in {"subneg", "deltas", "done"}
        /\ 2 * Cardinality(PrePositives) <= num_rpn_deltas)
        => \A j \in 1..M : target_matchs[gt_iou_argmax[j]] = 1

C10_Witness ==
    /\ pc = "done"
    /\ 2 * Cardinality(PrePositives) <= num_rpn_deltas
    /\ Cardinality({i \in 1..N : valid_flags[i] = 1 /\ QLt(anchor_iou_max[i], neg_iou_thr)
                                   /\ ~ \E j \in 1..M : gt_iou_argmax[j] = i})
            > Count(target_matchs, -1)
    /\ \A j \in 1..M : target_matchs[gt_iou_argmax[j]] = 1
====
